---- MODULE Spec2Model ----
(***************************************************************************)
(* session-monitor: the transcript tailer (src/tail.mjs), the monitor loop *)
(* and record parser (src/monitor.mjs, stored in src/src/store.mjs), the   *)
(* assessment call with its heuristic fallback (src/assess.mjs) and the    *)
(* heuristic score (src/signals.mjs, stored in src/unnamed/part_000).      *)
(*                                                                         *)
(* Specifications:                                                         *)
(*   SpecTail      the tailer against a writer that appends byte by byte   *)
(*   Spec          the running monitor (startMonitor) over a transcript    *)
(*   SpecCount     the monitor over a long transcript written in bursts    *)
(*   SpecGoal      the monitor with goal auto-capture and the goal command *)
(*   SpecHook      the monitor and the UserPromptSubmit hook               *)
(*   SpecDrop      the monitor over lines that are not JSON or not known   *)
(*   SpecReconcile reconcileFailures applied to bounded event lists        *)
(*   SpecParse     parseLine applied to bounded raw records                *)
(*   SpecAssess    assess applied to bounded signal sets and responses     *)
(*   SpecScore     heuristicScore applied to bounded signal sets           *)
(*   SpecSignals   detectSignals applied to bounded event logs             *)
(*   SpecScope     detectSignals applied to logs of edits of several files *)
(*   SpecRotate    the tailer against a file that is appended to line by   *)
(*                 line, truncated, removed and restored; SpecRotateLive   *)
(*                 adds weak fairness of the polls                         *)
(***************************************************************************)
EXTENDS Integers, Sequences, FiniteSets, TLC

VARIABLES
    file,                 \* the transcript: a sequence of bytes
    fsys,                 \* the file system: whether the transcript can be read,
                          \* the lines appended so far, the latest truncation,
                          \* the goal in the goal store
    lastByteOffset,       \* tail.mjs:16  the tail cursor
    polling,              \* tail.mjs:17
    tpc,                  \* position of the tailer: off, timer, reading, done, crashed
    statSize,             \* stat.size taken by the latest statSync of the tailer
    delivered,            \* the entries handed to onEntry, in call order
    readTo,               \* highest byte offset a readFrom of a poll has read up to
    startOffset,          \* size of the transcript when tailJsonl was called
    mpc,                  \* position of startMonitor: init, readAll, initAssess, running
    events,               \* monitor.mjs  let events
    goal,                 \* monitor.mjs  let goal
    assessment,           \* monitor.mjs  let assessment
    toolCallsSinceAssess, \* monitor.mjs  let toolCallsSinceAssess
    stopped,              \* monitor.mjs  let stopped
    inflight,             \* Assessor calls started and not yet settled
    started,              \* number of Assessor calls started so far
    gpc,                  \* position of promptGoalUpdate: idle, writing
    screen,               \* what the latest render put on the terminal
    hist,                 \* bookkeeping about triggers, used to state properties
    env,                  \* the bounds of the environment of the run
    arg,                  \* input of the pure function under check
    ret,                  \* its result
    fpc                   \* "in" before the function is applied, "out" after

tailVars == <<lastByteOffset, polling, tpc, statSize, delivered, readTo, startOffset>>
monVars  == <<mpc, events, goal, assessment, toolCallsSinceAssess, stopped,
              inflight, started, gpc, screen, hist>>
funVars  == <<arg, ret, fpc>>
vars     == <<file, fsys, env, tailVars, monVars, funVars>>

Nil == "nil"

\* The file system at the start: the transcript can be read, no line has
\* been appended, and it has not been truncated (cut is the number of lines
\* appended before the latest truncation, faults the truncations and
\* removals so far), and the goal store holds no goal.
NoDisk == [available |-> TRUE, written |-> 0, cut |-> -1, faults |-> 0, goal |-> Nil]

Min(a, b) == IF a < b THEN a ELSE b
Max(a, b) == IF a > b THEN a ELSE b

Range(s) == {s[i] : i \in 1..Len(s)}

(***************************************************************************)
(* Bounds of the model.                                                    *)
(***************************************************************************)
MaxTailLines == 2      \* lines the writer appends in SpecTail

(***************************************************************************)
(* The transcript as bytes.  A line is BodyLen body bytes followed by a    *)
(* newline; a body byte carries the record it belongs to and its position  *)
(* in the line's text, so that a prefix of a line is not valid JSON.       *)
(***************************************************************************)
BodyLen == 2

NoRecord == [timestamp |-> 0, type |-> "none", content |-> <<>>]

NL == [part |-> 0, rec |-> NoRecord]

BodyByte(r, p) == [part |-> p, rec |-> r]

LineBytes(r) == [i \in 1..(BodyLen + 1) |-> IF i <= BodyLen THEN BodyByte(r, i) ELSE NL]

\* A line that is not JSON.
Garbage(n) == [timestamp |-> n, type |-> "garbage", content |-> <<>>]

\* The content blocks of a record (spec.md section 6); a field a block does
\* not carry holds the value the code's defaults give it.
NoInput == [command |-> "", file_path |-> ""]

TextBlock(t) ==
    [type |-> "text", text |-> t, id |-> 0, name |-> "", input |-> NoInput,
     tool_use_id |-> 0, is_error |-> FALSE]

ToolUseBlock(i, n, inp) ==
    [type |-> "tool_use", text |-> "", id |-> i, name |-> n, input |-> inp,
     tool_use_id |-> 0, is_error |-> FALSE]

ToolResultBlock(i, e) ==
    [type |-> "tool_result", text |-> "", id |-> 0, name |-> "", input |-> NoInput,
     tool_use_id |-> i, is_error |-> e]

\* A record: ts is its timestamp, which here is the number of the line.
Record(ts, ty, blocks) == [timestamp |-> ts, type |-> ty, content |-> blocks]

BashCall(i) == ToolUseBlock(i, "Bash", [command |-> "npm test", file_path |-> ""])

\* The lines of the tool calls numbered from n to m.
CallLines(n, m) ==
    [i \in 1..((m - n + 1) * (BodyLen + 1)) |->
        LineBytes(Record(n + (i - 1) \div (BodyLen + 1), "assistant",
                         <<BashCall(n + (i - 1) \div (BodyLen + 1))>>))
            [1 + ((i - 1) % (BodyLen + 1))]]

\* Number of lines the writer has begun.
LinesBegun(f) == Cardinality({i \in 1..Len(f) : f[i].part = 1})

\* The writer is in the middle of a line.
MidLine(f) == f # <<>> /\ f[Len(f)] # NL


(***************************************************************************)
(* readFrom (tail.mjs:47-64): stream the file from startByte to the end of *)
(* file as it is when the stream reads it, split it into lines (the last   *)
(* line is emitted even without a newline), trim, skip empty lines, parse  *)
(* each line as JSON and skip those that do not parse.                     *)
(***************************************************************************)
SplitLines(bytes) ==
    LET nl   == SelectSeq([i \in 1..Len(bytes) |-> i], LAMBDA i : bytes[i] = NL)
        full == [k \in 1..Len(nl) |->
                    SubSeq(bytes, IF k = 1 THEN 1 ELSE nl[k - 1] + 1, nl[k] - 1)]
        last == IF Len(nl) = 0 THEN 0 ELSE nl[Len(nl)]
    IN  IF last < Len(bytes)
        THEN full \o <<SubSeq(bytes, last + 1, Len(bytes))>>
        ELSE full

\* JSON.parse succeeds on the text of a line exactly when the text is the
\* whole body of a JSON record.
JsonParses(t) ==
    /\ Len(t) = BodyLen
    /\ \A i \in 1..BodyLen : t[i].part = i /\ t[i].rec = t[1].rec
    /\ t[1].rec.type # "garbage"

ParseEach(ls) ==
    LET parsed == SelectSeq(ls, LAMBDA t : Len(t) > 0 /\ JsonParses(t))
    IN  [k \in 1..Len(parsed) |-> parsed[k][1].rec]

readFrom(f, startByte) ==
    ParseEach(SplitLines(SubSeq(f, startByte + 1, Len(f))))

readAll(f) == readFrom(f, 0)

\* Mutant: tailJsonl without the seek to the end of lines 21-23.
tailJsonlFromStart ==
    /\ lastByteOffset' = 0
    /\ polling' = TRUE
    /\ tpc' = "timer"
    /\ statSize' = IF fsys.available THEN Len(file) ELSE 0
    /\ readTo' = 0
    /\ startOffset' = IF fsys.available THEN Len(file) ELSE 0

(***************************************************************************)
(* tailJsonl (tail.mjs:15-42).                                             *)
(***************************************************************************)
\* tail.mjs:16-23,39: seek to the end of the file and schedule the first poll.
tailJsonl ==
    /\ lastByteOffset' = IF fsys.available THEN Len(file) ELSE 0
    /\ polling' = TRUE
    /\ tpc' = "timer"
    /\ statSize' = IF fsys.available THEN Len(file) ELSE 0
    /\ readTo' = IF fsys.available THEN Len(file) ELSE 0
    /\ startOffset' = IF fsys.available THEN Len(file) ELSE 0

\* tail.mjs:26: the timer fires after stop: poll returns, nothing is scheduled.
PollStopped ==
    /\ tpc = "timer"
    /\ ~polling
    /\ tpc' = "done"
    /\ UNCHANGED <<lastByteOffset, polling, statSize, delivered, readTo, startOffset>>

\* Mutant: a poll that sees the file smaller than the cursor moves the
\* cursor back to the size of the file.
PollIdleReseek ==
    /\ tpc = "timer"
    /\ polling
    /\ fsys.available
    /\ ~(Len(file) > lastByteOffset)
    /\ statSize' = Len(file)
    /\ lastByteOffset' = Len(file)
    /\ UNCHANGED <<polling, tpc, delivered, readTo, startOffset>>

\* tail.mjs:28-29,36: stat; the file has not grown: schedule the next poll.
PollIdle ==
    /\ tpc = "timer"
    /\ polling
    /\ fsys.available
    /\ ~(Len(file) > lastByteOffset)
    /\ statSize' = Len(file)
    /\ UNCHANGED <<lastByteOffset, polling, tpc, delivered, readTo, startOffset>>

\* tail.mjs:28-30: stat; the file has grown: start readFrom and await it.
PollStat ==
    /\ tpc = "timer"
    /\ polling
    /\ fsys.available
    /\ Len(file) > lastByteOffset
    /\ statSize' = Len(file)
    /\ tpc' = "reading"
    /\ UNCHANGED <<lastByteOffset, polling, delivered, readTo, startOffset>>

\* The entries the read in flight resolves with: the file is read when the
\* stream runs, after the stat.
NewEntries == readFrom(file, lastByteOffset)

\* tail.mjs:30-36 without the calls of onEntry: the read resolves, the cursor
\* moves to the size the stat saw, and the next poll is scheduled if polling.
PollRead ==
    /\ tpc = "reading"
    /\ fsys.available
    /\ lastByteOffset' = statSize
    /\ delivered' = delivered \o NewEntries
    /\ readTo' = Max(readTo, Len(file))
    /\ tpc' = IF polling THEN "timer" ELSE "done"
    /\ UNCHANGED <<polling, statSize, startOffset>>

\* tail.mjs:28,34,36: statSync throws, the file being unavailable: the catch
\* swallows the error and the next poll is scheduled.
PollStatError ==
    /\ tpc = "timer"
    /\ polling
    /\ ~fsys.available
    /\ UNCHANGED tailVars

\* tail.mjs:30-36, 51-59: the file became unavailable after the stat, and
\* the stream emits an error.  A readline that forwards the error of its
\* input runs the handler of line 59: readFrom resolves with no entries and
\* poll goes on as after any read.  With a readline that does not, the
\* error has no listener and ends the process.
PollReadError ==
    /\ tpc = "reading"
    /\ ~fsys.available
    /\ \/ /\ lastByteOffset' = statSize
          /\ tpc' = IF polling THEN "timer" ELSE "done"
       \/ /\ tpc' = "crashed"
          /\ UNCHANGED lastByteOffset
    /\ UNCHANGED <<polling, statSize, delivered, readTo, startOffset>>

\* tail.mjs:41: the stop function.
stopTail ==
    /\ polling' = FALSE
    /\ UNCHANGED <<lastByteOffset, tpc, statSize, delivered, readTo, startOffset>>


(***************************************************************************)
(* parseLine (monitor.mjs, src/src/store.mjs:258-316): one raw record to   *)
(* zero or one event.  The tailer hands over parsed objects, so the string *)
(* branch (261-263) is not taken.                                          *)
(***************************************************************************)
NoTool == [name |-> "", input |-> NoInput]

\* null
NoEvent ==
    [type |-> "null", text |-> "", id |-> 0, tool |-> NoTool, failed |-> FALSE,
     toolUseId |-> 0, isError |-> FALSE, timestamp |-> 0]

UserMessage(t, ts) == [NoEvent EXCEPT !.type = "user_message", !.text = t, !.timestamp = ts]

ToolCall(i, n, inp, f, ts) ==
    [NoEvent EXCEPT !.type = "tool_call", !.id = i, !.tool = [name |-> n, input |-> inp],
                    !.failed = f, !.timestamp = ts]

ToolResult(i, e, ts) ==
    [NoEvent EXCEPT !.type = "tool_result", !.toolUseId = i, !.isError = e, !.timestamp = ts]

\* Index of the first block of the given type, 0 when there is none.
FirstBlock(content, ty) ==
    LET is == {i \in 1..Len(content) : content[i].type = ty}
    IN  IF is = {} THEN 0 ELSE CHOOSE i \in is : \A j \in is : i <= j

\* Mutant: the last tool_use block of an assistant record is taken.
parseLineLastToolUse(raw) ==
    LET c  == raw.content
        ts == raw.timestamp
        t  == FirstBlock(c, "text")
        us == {i \in 1..Len(c) : c[i].type = "tool_use"}
        u  == IF us = {} THEN 0 ELSE CHOOSE i \in us : \A j \in us : j <= i
        r  == FirstBlock(c, "tool_result")
    IN  IF raw.type = "user" /\ t # 0 THEN UserMessage(c[t].text, ts)
        ELSE IF raw.type = "user" /\ r # 0 THEN NoEvent
        ELSE IF raw.type = "assistant" /\ u # 0
        THEN ToolCall(c[u].id, c[u].name, c[u].input, FALSE, ts)
        ELSE NoEvent

\* store.mjs:258-316
parseLine(raw) ==
    LET c  == raw.content
        ts == raw.timestamp
        t  == FirstBlock(c, "text")
        u  == FirstBlock(c, "tool_use")
        r  == FirstBlock(c, "tool_result")
    IN  \* 271-275: a user record with a text block
        IF raw.type = "user" /\ t # 0 THEN UserMessage(c[t].text, ts)
        \* 277-281: a user record with tool_result blocks and no text: null
        ELSE IF raw.type = "user" /\ r # 0 THEN NoEvent
        \* 285-297: an assistant record: its first tool_use block
        ELSE IF raw.type = "assistant" /\ u # 0
        THEN ToolCall(c[u].id, c[u].name, c[u].input, FALSE, ts)
        \* 301-313: a user record: its first tool_result block
        ELSE IF raw.type = "user" /\ r # 0
        THEN ToolResult(c[r].tool_use_id, c[r].is_error, ts)
        \* 315
        ELSE NoEvent

(***************************************************************************)
(* reconcileFailures (src/src/store.mjs:319-329).                          *)
(***************************************************************************)
\* 320-323: the map from toolUseId to result; a later result replaces an
\* earlier one with the same id.  The index of the result kept for id i.
ResultFor(evs, i) ==
    LET is == {k \in 1..Len(evs) : evs[k].type = "tool_result" /\ evs[k].toolUseId = i}
    IN  IF is = {} THEN 0 ELSE CHOOSE k \in is : \A j \in is : j <= k

\* Mutant: a call with no result is marked failed.
reconcileFailuresPessimistic(evs) ==
    [k \in 1..Len(evs) |->
        IF evs[k].type = "tool_call"
        THEN [evs[k] EXCEPT !.failed = IF ResultFor(evs, evs[k].id) # 0
                                       THEN evs[ResultFor(evs, evs[k].id)].isError
                                       ELSE TRUE]
        ELSE evs[k]]

\* Mutant: only a result that precedes the call is used.
reconcileFailuresBefore(evs) ==
    [k \in 1..Len(evs) |->
        IF evs[k].type = "tool_call" /\ ResultFor(SubSeq(evs, 1, k), evs[k].id) # 0
        THEN [evs[k] EXCEPT !.failed = evs[ResultFor(SubSeq(evs, 1, k), evs[k].id)].isError]
        ELSE evs[k]]

\* 324-328: the events after the call.
reconcileFailures(evs) ==
    [k \in 1..Len(evs) |->
        IF evs[k].type = "tool_call" /\ ResultFor(evs, evs[k].id) # 0
        THEN [evs[k] EXCEPT !.failed = evs[ResultFor(evs, evs[k].id)].isError]
        ELSE evs[k]]

(***************************************************************************)
(* Strings.  TLA+ strings are atoms, so the string functions the code uses *)
(* are given by their values on the strings of the model.                  *)
(***************************************************************************)
GoalA == "Fix the refresh token bug in AuthService"
GoalB == "Add retry to the upload client"

\* s.trim().substring(0, 80) on the commands of the model
NormalizeCommand(c) ==
    CASE c = "  npm test " -> "npm test"
      [] c = "cmd of 90 chars" -> "cmd of 90 chars cut at 80"
      [] OTHER -> c

\* s.toLowerCase() on the paths of the model
ToLowerCase(f) ==
    CASE f = "src/Auth/Refresh.js" -> "src/auth/refresh.js"
      [] f = "README.md" -> "readme.md"
      [] OTHER -> f

\* goal.toLowerCase().split(/\s+/).filter(w => w.length > 3)
GoalWords(g) ==
    CASE g = GoalA -> {"refresh", "token", "authservice"}
      [] g = GoalB -> {"retry", "upload", "client"}
      [] OTHER -> {}

\* f.includes(w) on the lower-cased paths and the words of the model
Includes(f, w) ==
    <<f, w>> \in {<<"src/auth/refresh.js", "refresh">>,
                  <<"src/upload/client.js", "upload">>,
                  <<"src/upload/client.js", "client">>,
                  <<"test/auth.test.js", "test">>,
                  <<"app.config.js", "config">>,
                  <<"src/auth/token.spec.js", "token">>,
                  <<"src/auth/token.spec.js", "spec">>}

LastN(s, n) == SubSeq(s, Max(1, Len(s) - n + 1), Len(s))

(***************************************************************************)
(* signals.mjs (src/unnamed/part_000).                                     *)
(***************************************************************************)
IsToolCall(e) == e.type = "tool_call"
IsBash(e)     == e.tool.name = "Bash"
IsWrite(e)    == e.tool.name \in {"Edit", "Write"}
IsRead(e)     == e.tool.name \in {"Read", "Glob", "Grep", "WebFetch"}

\* Number of elements of s equal to x.
CountOf(s, x) == Cardinality({i \in 1..Len(s) : s[i] = x})

\* Object.entries(counts).sort((a, b) => b[1] - a[1])[0]: the most frequent
\* key, the one inserted first among equals (the sort is stable).
Worst(s) ==
    LET best == {i \in 1..Len(s) : \A j \in 1..Len(s) : CountOf(s, s[j]) <= CountOf(s, s[i])}
    IN  s[CHOOSE i \in best : \A j \in best : i <= j]

\* 25-30: the normalised commands of the Bash calls, in order.
BashCommands(recent) ==
    LET bash == SelectSeq(recent, IsBash)
    IN  [i \in 1..Len(bash) |-> NormalizeCommand(bash[i].tool.input.command)]

\* Mutant: the counts are not sorted; the command met first is taken.
detectLoopFirst(recent) ==
    LET cmds == BashCommands(recent)
    IN  IF Len(cmds) > 0 /\ CountOf(cmds, cmds[1]) >= 3
        THEN [detected |-> TRUE, command |-> cmds[1], count |-> CountOf(cmds, cmds[1])]
        ELSE [detected |-> FALSE, command |-> "", count |-> 0]

\* part_000:24-34
detectLoop(recent) ==
    LET cmds == BashCommands(recent)
    IN  IF Len(cmds) > 0 /\ CountOf(cmds, Worst(cmds)) >= 3
        THEN [detected |-> TRUE, command |-> Worst(cmds), count |-> CountOf(cmds, Worst(cmds))]
        ELSE [detected |-> FALSE, command |-> "", count |-> 0]

\* 38-41, 78-82: the paths of the Edit and Write calls, in order.
EditedPaths(recent) ==
    LET edits == SelectSeq(recent, IsWrite)
    IN  [i \in 1..Len(edits) |-> edits[i].tool.input.file_path]

\* part_000:37-49
detectStuckOnFile(recent) ==
    LET files == EditedPaths(recent)
    IN  IF Len(files) >= 5 /\ CountOf(files, Worst(files)) >= 5
        THEN [detected |-> TRUE, file |-> Worst(files), count |-> CountOf(files, Worst(files))]
        ELSE [detected |-> FALSE, file |-> "", count |-> 0]

\* Length of the run of failed calls that ends at position i.
RECURSIVE FailedRun(_, _)
FailedRun(recent, i) ==
    IF i = 0 \/ ~recent[i].failed THEN 0 ELSE 1 + FailedRun(recent, i - 1)

RECURSIVE MaxOver(_, _, _)
MaxOver(recent, i, m) ==
    IF i > Len(recent) THEN m ELSE MaxOver(recent, i + 1, Max(m, FailedRun(recent, i)))

\* Mutant: the streak at the end of the window is reported, not the longest.
detectErrorStreakLast(recent) ==
    LET maxStreak == FailedRun(recent, Len(recent))
    IN  [detected |-> maxStreak >= 3, streak |-> maxStreak]

\* part_000:52-60
detectErrorStreak(recent) ==
    LET maxStreak == MaxOver(recent, 1, 0)
    IN  [detected |-> maxStreak >= 3, streak |-> maxStreak]

\* The reads counted scanning back from position i to the first write.
RECURSIVE ReadsBack(_, _)
ReadsBack(recent, i) ==
    IF i = 0 \/ IsWrite(recent[i]) THEN 0
    ELSE (IF IsRead(recent[i]) THEN 1 ELSE 0) + ReadsBack(recent, i - 1)

\* part_000:63-74
detectParalysis(recent) ==
    LET readCount == ReadsBack(recent, Len(recent))
    IN  [detected |-> readCount >= 8, count |-> readCount]

Unrelated(f, g) ==
    /\ \A w \in GoalWords(g) : ~Includes(f, w)
    /\ ~Includes(f, "test") /\ ~Includes(f, "spec") /\ ~Includes(f, "config")

\* 84-90: the lower-cased paths that are unrelated to the goal, in order.
UnrelatedPaths(files, g) ==
    LET lower == [i \in 1..Len(files) |-> ToLowerCase(files[i])]
    IN  SelectSeq(lower, LAMBDA f : Unrelated(f, g))

\* [...new Set(s)]: the distinct elements in order of first occurrence
RECURSIVE Distinct(_)
Distinct(s) ==
    IF s = <<>> THEN <<>>
    ELSE LET d == Distinct(SubSeq(s, 1, Len(s) - 1))
         IN  IF CountOf(d, s[Len(s)]) > 0 THEN d ELSE Append(d, s[Len(s)])

\* part_000:77-95
detectScopeCreep(recent, g) ==
    IF g = Nil \/ g = ""
    THEN [detected |-> FALSE, files |-> <<>>]
    ELSE LET unrelated == UnrelatedPaths(EditedPaths(recent), g)
         IN  [detected |-> Len(unrelated) >= 3,
              files |-> SubSeq(Distinct(unrelated), 1, Min(3, Len(Distinct(unrelated))))]

\* part_000:98-112
detectGoodMomentum(recent) ==
    LET goodPatterns ==
            Cardinality({i \in 1..(Len(recent) - 1) :
                            /\ IsWrite(recent[i])
                            /\ IsBash(recent[i + 1])
                            /\ ~recent[i + 1].failed})
    IN  [detected |-> goodPatterns >= 2, count |-> goodPatterns]

\* Mutant: the length of the log is not tested.
detectNoProgressAnyLength(evs) ==
    LET recent == LastN(evs, 20)
        hasWrite == \E i \in 1..Len(recent) : IsWrite(recent[i])
    IN  [detected |-> ~hasWrite]

\* part_000:115-119
detectNoProgress(evs) ==
    LET recent == LastN(evs, 20)
        hasWrite == \E i \in 1..Len(recent) : IsWrite(recent[i])
    IN  [detected |-> ~hasWrite /\ Len(recent) >= 10]

\* part_000:8-21
detectSignals(evs, g) ==
    LET recent == LastN(SelectSeq(evs, IsToolCall), 15)
    IN  [loop         |-> detectLoop(recent),
         stuckOnFile  |-> detectStuckOnFile(recent),
         errorStreak  |-> detectErrorStreak(recent),
         paralysis    |-> detectParalysis(recent),
         scopeCreep   |-> detectScopeCreep(recent, g),
         goodMomentum |-> detectGoodMomentum(recent),
         noProgress   |-> detectNoProgress(evs)]

\* One part of the summary: the signal, and the evidence quoted in its text.
Part(sig, what, n, files) == [signal |-> sig, what |-> what, n |-> n, files |-> files]

\* part_000:122-132: the parts in order; joined with "; " they are the text.
signalSummary(signals) ==
    LET parts ==
            (IF signals.loop.detected
             THEN <<Part("Loop", signals.loop.command, signals.loop.count, <<>>)>> ELSE <<>>)
         \o (IF signals.stuckOnFile.detected
             THEN <<Part("Stuck", signals.stuckOnFile.file, signals.stuckOnFile.count, <<>>)>>
             ELSE <<>>)
         \o (IF signals.errorStreak.detected
             THEN <<Part("Error streak", "", signals.errorStreak.streak, <<>>)>> ELSE <<>>)
         \o (IF signals.paralysis.detected
             THEN <<Part("Analysis paralysis", "", signals.paralysis.count, <<>>)>> ELSE <<>>)
         \o (IF signals.scopeCreep.detected
             THEN <<Part("Scope creep", "", 0, signals.scopeCreep.files)>> ELSE <<>>)
         \o (IF signals.goodMomentum.detected
             THEN <<Part("Good momentum", "", signals.goodMomentum.count, <<>>)>> ELSE <<>>)
         \o (IF signals.noProgress.detected
             THEN <<Part("No file edits in last 20 steps", "", 0, <<>>)>> ELSE <<>>)
    IN  IF parts # <<>> THEN parts ELSE <<Part("No anomalies detected", "", 0, <<>>)>>

Delta(flag, d) == IF flag THEN d ELSE 0

\* Mutant: heuristicScore without the clamp of line 144.
heuristicScoreUnclamped(signals) ==
    70 - Delta(signals.loop.detected, 25)
       - Delta(signals.stuckOnFile.detected, 20)
       - Delta(signals.errorStreak.detected, 30)
       - Delta(signals.paralysis.detected, 20)
       - Delta(signals.scopeCreep.detected, 15)
       - Delta(signals.noProgress.detected, 20)
       + Delta(signals.goodMomentum.detected, 20)

\* part_000:135-145
heuristicScore(signals) ==
    LET score == 70 - Delta(signals.loop.detected, 25)
                    - Delta(signals.stuckOnFile.detected, 20)
                    - Delta(signals.errorStreak.detected, 30)
                    - Delta(signals.paralysis.detected, 20)
                    - Delta(signals.scopeCreep.detected, 15)
                    - Delta(signals.noProgress.detected, 20)
                    + Delta(signals.goodMomentum.detected, 20)
    IN  Max(0, Min(100, score))

(***************************************************************************)
(* assess (src/src/assess.mjs:35-83).  The outcome of the request to the   *)
(* Assessor is a response: the request throws (network, auth, timeout), or *)
(* it returns a text that is not JSON, the JSON null, or a JSON object     *)
(* with some of the fields score, status, reason, suggestion.              *)
(***************************************************************************)
Response(k, j, hs, sc, hst, st, hr, r, sg) ==
    [kind |-> k, json |-> j, hasScore |-> hs, score |-> sc, hasStatus |-> hst,
     status |-> st, hasReason |-> hr, reason |-> r, suggestion |-> sg]

Thrown(cause) == Response(cause, "none", FALSE, 0, FALSE, "", FALSE, "", Nil)

NotJson == Response("text", "none", FALSE, 0, FALSE, "", FALSE, "", Nil)

JsonNull == Response("text", "null", FALSE, 0, FALSE, "", FALSE, "", Nil)

\* assess.mjs:106, on integers
clamp(n) == Max(0, Min(100, n))

\* String(s ?? '').toUpperCase().includes(label), on the statuses of the model
UpperIncludes(st, label) ==
    <<st, label>> \in {<<"ON TRACK", "ON TRACK">>, <<"on track", "ON TRACK">>,
                       <<"HEADS UP", "HEADS UP">>, <<"DRIFTING", "DRIFTING">>,
                       <<"STUCK", "STUCK">>, <<"Agent is stuck", "STUCK">>}

\* assess.mjs:108-115
normalizeStatus(st) ==
    IF UpperIncludes(st, "ON TRACK") THEN "ON TRACK"
    ELSE IF UpperIncludes(st, "HEADS UP") THEN "HEADS UP"
    ELSE IF UpperIncludes(st, "DRIFTING") THEN "DRIFTING"
    ELSE IF UpperIncludes(st, "STUCK") THEN "STUCK"
    ELSE "HEADS UP"

\* assess.mjs:117-122
scoreToStatus(score) ==
    IF score >= 80 THEN "ON TRACK"
    ELSE IF score >= 60 THEN "HEADS UP"
    ELSE IF score >= 40 THEN "DRIFTING"
    ELSE "STUCK"

\* s.slice(0, 140), on the texts of the model
Slice140(t) ==
    CASE t = "text of 200 chars" -> "text of 200 chars cut at 140"
      [] OTHER -> t

Reason(t, summary) == [text |-> t, summary |-> summary]

\* assess.mjs:54-63: the request throws, or JSON.parse throws, or reading
\* a field of null throws.
Throws(response) == response.kind # "text" \/ response.json # "object"

\* assess.mjs:65-71
FromApi(response) ==
    [score      |-> clamp(IF response.hasScore /\ response.score # 0
                          THEN response.score ELSE 70),
     status     |-> normalizeStatus(IF response.hasStatus THEN response.status ELSE ""),
     reason     |-> Reason(Slice140(IF response.hasReason THEN response.reason ELSE ""),
                           <<>>),
     suggestion |-> IF response.suggestion \notin {Nil, ""}
                    THEN Slice140(response.suggestion) ELSE Nil,
     source     |-> "api"]

\* Mutant: the fallback reports the base score instead of the heuristic one.
FallbackBase(signals, signalText) ==
    [score      |-> 70,
     status     |-> scoreToStatus(70),
     reason     |-> Reason("API unavailable - using signal heuristics", signalText),
     suggestion |-> Nil,
     source     |-> "heuristic"]

\* assess.mjs:72-81
Fallback(signals, signalText) ==
    LET score == heuristicScore(signals)
    IN  [score      |-> score,
         status     |-> scoreToStatus(score),
         reason     |-> Reason("API unavailable - using signal heuristics", signalText),
         suggestion |-> IF score < 60
                        THEN "Check the signals and consider redirecting the agent."
                        ELSE Nil,
         source     |-> "heuristic"]

\* assess.mjs:54-82: the assessment made of the response
assess(signals, signalText, response) ==
    IF Throws(response) THEN Fallback(signals, signalText) ELSE FromApi(response)

(***************************************************************************)
(* State in which a part of the system takes no part in a specification.   *)
(***************************************************************************)
\* null
NoAssessment ==
    [score |-> -1, status |-> "", reason |-> Reason("", <<>>), suggestion |-> Nil,
     source |-> "none", assessedAt |-> 0, call |-> 0]

\* Nothing rendered yet.
NoScreen == [by |-> "none", call |-> 0, afterStop |-> FALSE]

\* Bookkeeping about the triggers of the counter path:
\*   sinceTrigger  tool-call events handled since the latest trigger
\*   forced        a manual goal update has forced the counter since then
\*   auto          triggers reached by counting alone, counted up to 2
\*   initial       the trigger of the start has happened
\*   early         some trigger not forced came at a count other than 10
\*   missed        some count reached 10 without a trigger
\*   skipped       some trigger found no goal and was skipped
\*   goalUpdates   manual goal updates so far
\*   assessed      the goal of the latest call to the Assessor, if any
\*   cli           the goal command has written the goal store since
\*                 startMonitor read it
NoHist == [sinceTrigger |-> 0, forced |-> FALSE, auto |-> 0, initial |-> FALSE,
           early |-> FALSE, missed |-> FALSE, skipped |-> FALSE, goalUpdates |-> 0,
           assessed |-> Nil, cli |-> FALSE]

TailOff ==
    /\ lastByteOffset = 0
    /\ polling = FALSE
    /\ tpc = "off"
    /\ statSize = 0
    /\ delivered = <<>>
    /\ readTo = 0
    /\ startOffset = 0

MonitorOff ==
    /\ mpc = "off"
    /\ events = <<>>
    /\ goal = Nil
    /\ assessment = NoAssessment
    /\ toolCallsSinceAssess = 0
    /\ stopped = FALSE
    /\ inflight = {}
    /\ started = 0
    /\ gpc = "idle"
    /\ screen = NoScreen
    /\ hist = NoHist

FunOff ==
    /\ arg = Nil
    /\ ret = Nil
    /\ fpc = "off"

(***************************************************************************)
(* startMonitor (monitor.mjs, src/src/store.mjs:132-254).                  *)
(***************************************************************************)
ASSESS_EVERY_N_CALLS == 10

\* The user texts of the model and what the tests of extractUserText
\* (store.mjs:333-349) say of them.
TextError == "TypeError: x is undefined"
TextShort == "push it"
TextLong  == "goal text of 600 chars"

\* 339: /^(TypeError|Error|ReferenceError|SyntaxError|RangeError)[\s:]/
ErrorPrefix(t) == t \in {TextError}

\* 340-343: a stack frame, a file URL with a line number, a fenced block
StackOrFence(t) == t \in {"    at run (file.js:1:1)", "~~~ fenced block ~~~"}

\* 346: fewer than 20 characters and at most 2 words
ShortCommand(t) == t \in {TextShort, "ok"}

\* text.slice(0, 500)
Slice500(t) ==
    CASE t = TextLong -> "goal text of 600 chars cut at 500"
      [] OTHER -> t

\* store.mjs:333-349
extractUserText(entry) ==
    IF entry.type # "user_message" THEN Nil
    ELSE IF entry.text = "" THEN Nil
    ELSE IF ErrorPrefix(entry.text) \/ StackOrFence(entry.text) THEN Nil
    ELSE IF ShortCommand(entry.text) THEN Nil
    ELSE Slice500(entry.text)

\* The state the tail handler and runAssess work on.
MonitorState ==
    [events |-> events, goal |-> goal, toolCallsSinceAssess |-> toolCallsSinceAssess,
     inflight |-> inflight, started |-> started, hist |-> hist, stored |-> fsys.goal]

\* 218-220: the signals are detected, and assess sends the request: the
\* call is in flight until the Assessor answers or the request fails.
StartCall(m) ==
    [m EXCEPT !.inflight = @ \cup {[call    |-> m.started + 1,
                                    goal    |-> m.goal,
                                    signals |-> detectSignals(m.events, m.goal)]},
              !.started = @ + 1,
              !.hist.assessed = m.goal]

\* Mutant: runAssess without the guard of line 217.
runAssessNoGuard(m) == StartCall(m)

\* 216-220: runAssess up to its await.
runAssess(m) ==
    IF m.goal = Nil
    THEN [m EXCEPT !.hist.skipped = TRUE]
    ELSE StartCall(m)

\* Mutant: the counter is not reset when the threshold is reached.
CountToolCallNoReset(m) ==
    LET n     == m.toolCallsSinceAssess + 1
        since == m.hist.sinceTrigger + 1
    IN  IF n >= ASSESS_EVERY_N_CALLS
        THEN runAssess([m EXCEPT !.toolCallsSinceAssess = n,
                                 !.hist.sinceTrigger = 0,
                                 !.hist.forced = FALSE,
                                 !.hist.auto = IF m.hist.forced THEN @ ELSE Min(@ + 1, 2),
                                 !.hist.early = @ \/ (~m.hist.forced
                                                       /\ since # ASSESS_EVERY_N_CALLS)])
        ELSE [m EXCEPT !.toolCallsSinceAssess = n,
                       !.hist.sinceTrigger = since,
                       !.hist.missed = @ \/ (since >= ASSESS_EVERY_N_CALLS)]

\* Mutant: at the threshold the counter is reset only when a goal is set.
CountToolCallResetWithGoal(m) ==
    LET n     == m.toolCallsSinceAssess + 1
        since == m.hist.sinceTrigger + 1
    IN  IF n >= ASSESS_EVERY_N_CALLS
        THEN runAssess([m EXCEPT !.toolCallsSinceAssess = IF m.goal = Nil THEN n ELSE 0,
                                 !.hist.sinceTrigger = 0,
                                 !.hist.forced = FALSE,
                                 !.hist.auto = IF m.hist.forced THEN @ ELSE Min(@ + 1, 2),
                                 !.hist.early = @ \/ (~m.hist.forced
                                                       /\ since # ASSESS_EVERY_N_CALLS)])
        ELSE [m EXCEPT !.toolCallsSinceAssess = n,
                       !.hist.sinceTrigger = since,
                       !.hist.missed = @ \/ (since >= ASSESS_EVERY_N_CALLS)]

\* 167-173: a tool call is counted; at the threshold the counter is reset
\* and runAssess is called.
CountToolCall(m) ==
    LET n     == m.toolCallsSinceAssess + 1
        since == m.hist.sinceTrigger + 1
    IN  IF n >= ASSESS_EVERY_N_CALLS
        THEN runAssess([m EXCEPT !.toolCallsSinceAssess = 0,
                                 !.hist.sinceTrigger = 0,
                                 !.hist.forced = FALSE,
                                 !.hist.auto = IF m.hist.forced THEN @ ELSE Min(@ + 1, 2),
                                 !.hist.early = @ \/ (~m.hist.forced
                                                       /\ since # ASSESS_EVERY_N_CALLS)])
        ELSE [m EXCEPT !.toolCallsSinceAssess = n,
                       !.hist.sinceTrigger = since,
                       !.hist.missed = @ \/ (since >= ASSESS_EVERY_N_CALLS)]

\* Mutant: the event is put at the head of the log.
onEntryPrepend(m, raw) ==
    LET entry == parseLine(raw)
    IN  IF entry = NoEvent THEN m
        ELSE LET m1 == [m EXCEPT !.events = <<entry>> \o @]
                 captured == extractUserText(entry)
                 m2 == IF m1.goal = Nil /\ entry.type = "user_message"
                       THEN [m1 EXCEPT !.goal = captured,
                                       !.stored = IF captured # Nil THEN captured ELSE @]
                       ELSE m1
             IN  IF entry.type = "tool_call" THEN CountToolCall(m2) ELSE m2

\* 156-174: the tail handler, with the write of the goal store it awaits
\* (164); nothing follows its awaits.
onEntry(m, raw) ==
    LET entry == parseLine(raw)
    IN  IF entry = NoEvent THEN m
        ELSE LET m1 == [m EXCEPT !.events = Append(@, entry)]
                 captured == extractUserText(entry)
                 m2 == IF m1.goal = Nil /\ entry.type = "user_message"
                       THEN [m1 EXCEPT !.goal = captured,
                                       !.stored = IF captured # Nil THEN captured ELSE @]
                       ELSE m1
             IN  IF entry.type = "tool_call" THEN CountToolCall(m2) ELSE m2

\* tail.mjs:32: for (const entry of newEntries) onEntry(entry)
OnEntries(m, entries) ==
    LET after[i \in 0..Len(entries)] ==
            IF i = 0 THEN m
            ELSE LET before == after[i - 1]
                 IN  \* the test holds; it has the state before the entry
                     \* computed before the entry is handled
                     IF before.started >= 0 THEN onEntry(before, entries[i]) ELSE before
    IN  after[Len(entries)]

\* 145-148: the events of the records loaded at the start
ParseAll(entries) ==
    SelectSeq([i \in 1..Len(entries) |-> parseLine(entries[i])], LAMBDA e : e # NoEvent)

SetMonitorState(m) ==
    /\ events' = m.events
    /\ goal' = m.goal
    /\ toolCallsSinceAssess' = m.toolCallsSinceAssess
    /\ inflight' = m.inflight
    /\ started' = m.started
    /\ hist' = m.hist
    /\ fsys' = [fsys EXCEPT !.goal = m.stored]

\* render(buildState(), prevLines): the terminal shows the assessment a;
\* by is the caller: initial (185), tick (181) or assess (223).
Render(by, a) == [by |-> by, call |-> a.call, afterStop |-> stopped]

\* 221: the result of assess with its time, here the number of the call
\* among the calls settled, and the number of the call among those started.
Stamp(result, at, call) ==
    [score |-> result.score, status |-> result.status, reason |-> result.reason,
     suggestion |-> result.suggestion, source |-> result.source,
     assessedAt |-> at, call |-> call]

(***************************************************************************)
(* SpecTail: the tailer with a handler that records what it is given, and  *)
(* a writer that appends to the transcript one byte at a time, so that a   *)
(* stat and the read that follows it can see different sizes and a poll    *)
(* can see a line half written.                                            *)
(***************************************************************************)
\* The bounds of a run: the lines the writer appends, how many of the first
\* lines may be other than tool calls, the lines the transcript may hold
\* when startMonitor is called, the manual goal updates, and the sizes of
\* the bursts of lines the writer appends in one write.
Env(l, m, h, g, b) ==
    [lines |-> l, mixed |-> m, history |-> h, goalUpdates |-> g, bursts |-> b]

InitTail ==
    /\ file = <<>>
    /\ env = Env(MaxTailLines, MaxTailLines, 0, 0, {1})
    /\ fsys = NoDisk
    /\ TailOff
    /\ MonitorOff
    /\ FunOff

\* The next byte of the line the writer is in the middle of.
NextByte(f) ==
    LET b == f[Len(f)]
    IN  IF b.part < BodyLen THEN BodyByte(b.rec, b.part + 1) ELSE NL

\* The external writer appends one byte.
WriteByte ==
    /\ IF MidLine(file)
       THEN file' = Append(file, NextByte(file))
       ELSE /\ LinesBegun(file) < env.lines
            /\ \E r \in {Record(LinesBegun(file) + 1, "assistant",
                                 <<BashCall(LinesBegun(file) + 1)>>),
                          Garbage(LinesBegun(file) + 1)} :
                  file' = Append(file, BodyByte(r, 1))
    /\ UNCHANGED <<fsys, env, tailVars, monVars, funVars>>

TailStart ==
    /\ tpc = "off"
    /\ tailJsonl
    /\ UNCHANGED <<file, fsys, env, delivered, monVars, funVars>>

TailPollStopped == PollStopped /\ UNCHANGED <<file, fsys, env, monVars, funVars>>

TailPollIdle == PollIdle /\ UNCHANGED <<file, fsys, env, monVars, funVars>>

TailPollStat == PollStat /\ UNCHANGED <<file, fsys, env, monVars, funVars>>

TailPollRead == PollRead /\ UNCHANGED <<file, fsys, env, monVars, funVars>>

TailStop ==
    /\ tpc \in {"timer", "reading"}
    /\ polling
    /\ stopTail
    /\ UNCHANGED <<file, fsys, env, monVars, funVars>>

NextTail ==
    \/ WriteByte
    \/ TailStart
    \/ TailPollStopped
    \/ TailPollIdle
    \/ TailPollStat
    \/ TailPollRead
    \/ TailStop

SpecTail == InitTail /\ [][NextTail]_vars

\* Number of times the line with timestamp n was handed to the handler.
TimesDelivered(n) == Cardinality({i \in 1..Len(delivered) : delivered[i].timestamp = n})

\* C1: without truncation, every poll reads exactly the byte range from the
\* cursor to the size its stat saw, no poll reads a byte an earlier poll has
\* read, and every complete line is handed to the handler at most once.
C1_ReadOnce ==
    /\ [][(tpc = "reading" /\ tpc' # "reading")
            => (Len(file) = statSize /\ lastByteOffset >= readTo)]_vars
    /\ [](\A n \in 1..MaxTailLines : TimesDelivered(n) <= 1)

\* stop has been called on a tail that was started.
TailStopped == tpc # "off" /\ ~polling

\* C13: once stop has been called, the handler is not invoked: the entries
\* of a read that was in flight at the stop are discarded.
C13_NoEntryAfterStop == [][TailStopped => delivered' = delivered]_vars

WholeValidLine(n) ==
    /\ Len(file) >= n * (BodyLen + 1)
    /\ JsonParses(SubSeq(file, (n - 1) * (BodyLen + 1) + 1, (n - 1) * (BodyLen + 1) + BodyLen))

\* C35: a complete, valid JSON line appended while the tail is running is
\* delivered to the handler, also when a poll saw the file with a prefix of
\* the line only: once the cursor of a tail that has not been stopped has
\* passed the end of the line, after which no poll reads it, the handler
\* has been given the line.
C35_AppendedLineDelivered ==
    \A n \in 1..MaxTailLines :
        (/\ tpc # "off" /\ polling
         /\ WholeValidLine(n)
         /\ (n - 1) * (BodyLen + 1) >= startOffset
         /\ lastByteOffset >= n * (BodyLen + 1))
            => TimesDelivered(n) > 0

(***************************************************************************)
(* SpecRotate: the tailer against a writer that appends whole lines, and a *)
(* file system in which the transcript is truncated to a prefix of its     *)
(* lines, or removed and then restored, with its content or empty.         *)
(* SpecRotateLive adds that the timers of the tailer fire and its reads    *)
(* end.                                                                    *)
(***************************************************************************)
MaxRotateLines == 3

MaxFaults == 1

InitRotate ==
    /\ file = <<>>
    /\ fsys = NoDisk
    /\ env = Env(MaxRotateLines, 0, 0, 0, {1})
    /\ TailOff
    /\ MonitorOff
    /\ FunOff

\* The writer appends the next line, a tool call.
AppendLine ==
    /\ fsys.available
    /\ fsys.written < env.lines
    /\ file' = file \o CallLines(fsys.written + 1, fsys.written + 1)
    /\ fsys' = [fsys EXCEPT !.written = @ + 1]
    /\ UNCHANGED <<env, tailVars, monVars, funVars>>

\* The transcript is truncated to fewer of its lines.
Truncate ==
    /\ fsys.available
    /\ fsys.faults < MaxFaults
    /\ \E k \in 0..(Len(file) \div (BodyLen + 1) - 1) :
          file' = SubSeq(file, 1, k * (BodyLen + 1))
    /\ fsys' = [fsys EXCEPT !.cut = fsys.written, !.faults = @ + 1]
    /\ UNCHANGED <<env, tailVars, monVars, funVars>>

\* The transcript is removed or made unreadable.
Remove ==
    /\ fsys.available
    /\ fsys.faults < MaxFaults
    /\ fsys' = [fsys EXCEPT !.available = FALSE, !.faults = @ + 1]
    /\ UNCHANGED <<file, env, tailVars, monVars, funVars>>

\* The transcript is back, with its content or created anew.
Restore ==
    /\ ~fsys.available
    /\ \/ /\ file' = file
          /\ fsys' = [fsys EXCEPT !.available = TRUE]
       \/ /\ file' = <<>>
          /\ fsys' = [fsys EXCEPT !.available = TRUE, !.cut = fsys.written]
    /\ UNCHANGED <<env, tailVars, monVars, funVars>>

RotatePollStatError == PollStatError /\ UNCHANGED <<file, fsys, env, monVars, funVars>>

RotatePollReadError == PollReadError /\ UNCHANGED <<file, fsys, env, monVars, funVars>>

\* The steps of the tailer that its timer and its streams take.
NextPoll ==
    \/ TailPollStopped
    \/ TailPollIdle
    \/ TailPollStat
    \/ TailPollRead
    \/ RotatePollStatError
    \/ RotatePollReadError

NextRotate ==
    \/ AppendLine
    \/ Truncate
    \/ Remove
    \/ Restore
    \/ TailStart
    \/ TailStop
    \/ NextPoll

SpecRotate == InitRotate /\ [][NextRotate]_vars

SpecRotateLive == SpecRotate /\ WF_vars(NextPoll)

\* The latest poll saw the file smaller than the cursor.
ShrinkSeen == tpc = "timer" /\ statSize < lastByteOffset

\* The line numbered n is in the file.
LineInFile(n) == \E i \in 1..Len(file) : file[i].rec.timestamp = n

\* C16: after a poll has seen the file truncated below the cursor, the lines
\* appended after the truncation are delivered by the polls that follow,
\* unless they are removed again, the file cannot be read or the tail ends.
C16_DeliveredAfterTruncation ==
    \A n \in 1..MaxRotateLines :
        (ShrinkSeen /\ fsys.cut >= 0 /\ n > fsys.cut /\ LineInFile(n))
            ~> \/ TimesDelivered(n) > 0
               \/ ~LineInFile(n)
               \/ ~fsys.available
               \/ tpc \in {"done", "crashed"} \/ ~polling

\* C17: no step lowers the cursor of the tail.
C17_CursorMonotone == [][lastByteOffset' >= lastByteOffset]_vars

\* A poll has seen the file truncated below the cursor, and the cursor is
\* where it was, beyond the end of the file.
C17_Witness ==
    /\ ShrinkSeen
    /\ fsys.cut >= 0
    /\ lastByteOffset > Len(file)
    /\ Len(delivered) > 0

\* C19: a poll that fails because the file cannot be read leaves the cursor
\* where it was and, unless stop was called, schedules another poll.
C19_FailedPollRetries ==
    [][(~fsys.available /\ tpc \in {"timer", "reading"} /\ tpc' # tpc)
          => /\ lastByteOffset' = lastByteOffset
             /\ polling => tpc' = "timer"]_vars

(***************************************************************************)
(* Spec: the monitor.  The writer appends whole lines to the transcript;   *)
(* startMonitor is called while the transcript holds at most MaxHistory    *)
(* lines; the lines are user messages, tool calls or tool results.         *)
(***************************************************************************)
MaxLines == 3

MaxHistory == 2

MaxGoalUpdates == 1

Init ==
    /\ file = <<>>
    /\ env = Env(MaxLines, MaxLines, MaxHistory, MaxGoalUpdates, {1})
    /\ fsys = NoDisk
    /\ TailOff
    /\ MonitorOff
    /\ FunOff

\* The record of the latest complete line, NoRecord when there is none.
LastRecord(f) == IF Len(f) < 2 THEN NoRecord ELSE f[Len(f) - 1].rec

\* The records the writer may append as line n.
NextRecords(f) ==
    LET n    == LinesBegun(f) + 1
        last == LastRecord(f)
    IN  {Record(n, "assistant", <<BashCall(n)>>)}
        \cup (IF n <= env.mixed
              THEN {Record(n, "user", <<TextBlock(t)>>) : t \in {GoalA}}
              ELSE {})
        \cup (IF n <= env.mixed /\ last.type = "assistant"
              THEN {Record(n, "user", <<ToolResultBlock(last.content[1].id, e)>>) :
                       e \in BOOLEAN}
              ELSE {})

\* The external writer appends a burst of lines in one write: a line of
\* NextRecords and, in a burst of more than one line, tool calls after it.
WriteLine ==
    /\ LinesBegun(file) < env.lines
    /\ \E r \in NextRecords(file), k \in env.bursts :
          LET n == LinesBegun(file) + 1
          IN  file' = file \o LineBytes(r) \o CallLines(n + 1, Min(n + k - 1, env.lines))
    /\ UNCHANGED <<fsys, env, tailVars, monVars, funVars>>

\* 137, 144: the goal is the override or else what the goal store holds,
\* null when it holds nothing; readAll starts.
StartMonitor ==
    /\ mpc = "off"
    /\ LinesBegun(file) <= env.history
    /\ goal' \in {GoalA, fsys.goal}
    /\ hist' = [hist EXCEPT !.cli = FALSE]
    /\ mpc' = "readAll"
    /\ UNCHANGED <<file, fsys, env, tailVars, events, assessment, toolCallsSinceAssess, stopped,
                   inflight, started, gpc, screen, funVars>>

\* Mutant: the runAssess of line 152 is not awaited.
LoadExistingNoAwait ==
    /\ mpc = "readAll"
    /\ LET loaded == [MonitorState EXCEPT !.events = ParseAll(readAll(file))]
           m      == IF loaded.events # <<>>
                     THEN runAssess([loaded EXCEPT !.hist.initial = TRUE])
                     ELSE loaded
       IN  /\ SetMonitorState(m)
           /\ mpc' = "startTail"
    /\ UNCHANGED <<file, env, tailVars, assessment, stopped, gpc, screen, funVars>>

\* 144-153: readAll resolves; the events are loaded; if there are any,
\* runAssess is called and awaited.
LoadExisting ==
    /\ mpc = "readAll"
    /\ LET loaded == [MonitorState EXCEPT !.events = ParseAll(readAll(file))]
           m      == IF loaded.events # <<>>
                     THEN runAssess([loaded EXCEPT !.hist.initial = TRUE])
                     ELSE loaded
       IN  /\ SetMonitorState(m)
           /\ mpc' = IF m.inflight # {} THEN "initAssess" ELSE "startTail"
    /\ UNCHANGED <<file, env, tailVars, assessment, stopped, gpc, screen, funVars>>

\* 156-185: the tail is started, the display timer is set, and the first
\* render is made.
StartTailing ==
    /\ mpc = "startTail"
    /\ tailJsonl
    /\ mpc' = "running"
    /\ screen' = Render("initial", assessment)
    /\ UNCHANGED <<file, fsys, env, delivered, events, goal, assessment, toolCallsSinceAssess,
                   stopped, inflight, started, gpc, hist, funVars>>

MonitorPollStopped == PollStopped /\ UNCHANGED <<file, fsys, env, monVars, funVars>>

MonitorPollIdle == PollIdle /\ UNCHANGED <<file, fsys, env, monVars, funVars>>

MonitorPollStat == PollStat /\ UNCHANGED <<file, fsys, env, monVars, funVars>>

\* tail.mjs:30-36 with the handler of store.mjs:156-174 as onEntry.
MonitorPollRead ==
    /\ PollRead
    /\ SetMonitorState(OnEntries(MonitorState, NewEntries))
    /\ UNCHANGED <<file, env, mpc, assessment, stopped, gpc, screen, funVars>>

\* The responses of the Assessor in this specification.
MonitorResponses ==
    {Thrown("timeout"),
     Response("text", "object", TRUE, 85, TRUE, "ON TRACK", TRUE, "fine", Nil)}

\* 220-223: a call in flight settles: assess returns, the assessment is
\* replaced and the dashboard is redrawn; the await of line 152 ends.
AssessSettle ==
    /\ \E c \in inflight, r \in MonitorResponses :
          /\ assessment' = Stamp(assess(c.signals, signalSummary(c.signals), r),
                                 started - Cardinality(inflight) + 1, c.call)
          /\ inflight' = inflight \ {c}
    /\ screen' = Render("assess", assessment')
    /\ mpc' = IF mpc = "initAssess" THEN "startTail" ELSE mpc
    /\ UNCHANGED <<file, fsys, env, tailVars, events, goal, toolCallsSinceAssess, stopped, started,
                   gpc, hist, funVars>>

\* 226-234: the user presses g and enters a goal; an empty line changes
\* nothing; otherwise the goal is replaced and the write of the goal store
\* is awaited.
GoalUpdate ==
    /\ mpc = "running"
    /\ ~stopped
    /\ gpc = "idle"
    /\ hist.goalUpdates < env.goalUpdates
    /\ \E newGoal \in {"", GoalB} :
          IF newGoal = ""
          THEN UNCHANGED <<goal, gpc, hist>>
          ELSE /\ goal' = newGoal
               /\ gpc' = "writing"
               /\ hist' = [hist EXCEPT !.goalUpdates = @ + 1]
    /\ UNCHANGED <<file, fsys, env, tailVars, mpc, events, assessment, toolCallsSinceAssess, stopped,
                   inflight, started, screen, funVars>>

\* Mutant: the counter is left as it is.
GoalUpdateNoForce ==
    /\ gpc = "writing"
    /\ fsys' = [fsys EXCEPT !.goal = goal]
    /\ hist' = [hist EXCEPT !.forced = TRUE]
    /\ gpc' = "idle"
    /\ UNCHANGED <<file, env, tailVars, mpc, events, goal, assessment, toolCallsSinceAssess,
                   stopped, inflight, started, screen, funVars>>

\* 234-235: the write of the goal store is done; the counter is set to the
\* threshold.
GoalUpdateForce ==
    /\ gpc = "writing"
    /\ fsys' = [fsys EXCEPT !.goal = goal]
    /\ toolCallsSinceAssess' = ASSESS_EVERY_N_CALLS
    /\ hist' = [hist EXCEPT !.forced = TRUE]
    /\ gpc' = "idle"
    /\ UNCHANGED <<file, env, tailVars, mpc, events, goal, assessment, stopped, inflight,
                   started, screen, funVars>>

\* Mutant: the display timer is not cleared by stop and does not test stopped.
DisplayTickAfterStop ==
    /\ mpc = "running"
    /\ screen' = Render("tick", assessment)
    /\ UNCHANGED <<file, fsys, env, tailVars, mpc, events, goal, assessment, toolCallsSinceAssess,
                   stopped, inflight, started, gpc, hist, funVars>>

\* 179-182: the display timer fires.
DisplayTick ==
    /\ mpc = "running"
    /\ ~stopped
    /\ screen' = Render("tick", assessment)
    /\ UNCHANGED <<file, fsys, env, tailVars, mpc, events, goal, assessment, toolCallsSinceAssess,
                   stopped, inflight, started, gpc, hist, funVars>>

\* 242-251: stop.
Stop ==
    /\ mpc = "running"
    /\ ~stopped
    /\ stopped' = TRUE
    /\ stopTail
    /\ UNCHANGED <<file, fsys, env, mpc, events, goal, assessment, toolCallsSinceAssess, inflight,
                   started, gpc, screen, hist, funVars>>

Next ==
    \/ WriteLine
    \/ StartMonitor
    \/ LoadExisting
    \/ StartTailing
    \/ MonitorPollStopped
    \/ MonitorPollIdle
    \/ MonitorPollStat
    \/ MonitorPollRead
    \/ AssessSettle
    \/ GoalUpdate
    \/ GoalUpdateForce
    \/ DisplayTick
    \/ Stop

Spec == Init /\ [][Next]_vars

\* C14: after stop, the result of an Assessor call that was in flight is
\* discarded: the stored assessment is not replaced, and no render is made
\* for it.
C14_ResultDiscardedAfterStop ==
    [][stopped => /\ assessment' = assessment
                  /\ (screen' # screen => screen'.by # "assess")]_vars

\* C15: after stop, no poll begins: no stat is taken and no read is started;
\* and the display timer renders nothing.
C15_QuietAfterStop ==
    [][stopped => /\ statSize' = statSize
                  /\ (tpc' = "reading" => tpc = "reading")
                  /\ (screen' # screen => screen'.by # "tick")]_vars

\* The monitor was stopped after a render of the display timer; the poll
\* that was scheduled has returned, and the lines the writer has appended
\* since are not read.
C15_Witness ==
    /\ stopped
    /\ tpc = "done"
    /\ Len(file) > lastByteOffset
    /\ screen.by = "tick" /\ ~screen.afterStop

\* C20 as stated: when the transcript holds an event at the start, one
\* assessment is produced before the tail starts, and the first render
\* shows it.
C20_EagerAssessment ==
    hist.initial => /\ (mpc = "startTail" => started = 1 /\ assessment.call = 1)
                    /\ (screen.by = "initial" => screen.call = 1)

\* C20 amended: when the transcript holds an event at the start and a goal
\* is set, one call to assess is made and awaited before the tail starts,
\* and the first render shows its assessment.
C20_EagerAssessmentWithGoal ==
    (hist.initial /\ ~hist.skipped) =>
        /\ (mpc = "startTail" => started = 1 /\ inflight = {} /\ assessment.call = 1)
        /\ (screen.by = "initial" => screen.call = 1)

\* The first render shows the assessment of the start, here the fallback
\* of a call that failed.
C20_Witness ==
    /\ hist.initial
    /\ screen.by = "initial"
    /\ screen.call = 1
    /\ assessment.call = 1 /\ assessment.source = "heuristic"

\* C21 as stated: once the user has supplied a new goal, an assessment
\* against it has been triggered, whatever the counter was and with no
\* further tool call.
C21_GoalUpdateTriggers ==
    (hist.goalUpdates > 0 /\ gpc = "idle") => hist.assessed = goal

\* The number of tool-call events of a log.
ToolCalls(evs) == Len(SelectSeq(evs, IsToolCall))

\* C21 amended: once a manual goal update has completed, the next tool-call
\* event handled triggers an assessment against the new goal, whatever the
\* counter was before the update.
C21_NextCallAssessesNewGoal ==
    [][(hist.forced /\ ToolCalls(events') > ToolCalls(events))
          => \E c \in inflight' \ inflight : c.goal = goal /\ c.call = started + 1]_vars

\* A call against the goal of a manual update is pending, and the log holds
\* fewer than 10 tool calls in all.
C21_Witness ==
    /\ hist.goalUpdates > 0 /\ gpc = "idle" /\ ~hist.forced
    /\ goal = GoalB /\ hist.assessed = GoalB
    /\ \E c \in inflight : c.goal = GoalB
    /\ ToolCalls(events) \in 1..(ASSESS_EVERY_N_CALLS - 1)

\* C22: while a call to the Assessor is pending and the monitor has not
\* been stopped, the tailer is polling and the display timer is running.
C22_ContinuesWhilePending ==
    (inflight # {} /\ ~stopped) => (polling /\ mpc = "running")

\* No event of a log comes after an event of a later line of the transcript.
InFileOrder(evs) ==
    \A i, j \in 1..Len(evs) : i < j => evs[i].timestamp <= evs[j].timestamp

\* s is a prefix of t.
IsPrefix(s, t) == Len(s) <= Len(t) /\ SubSeq(t, 1, Len(s)) = s

\* C25: the event log is append-only and in order of arrival: every step
\* leaves it as it is or appends events at its end, and the events are in
\* the order of their lines in the transcript.
C25_AppendOnlyInFileOrder ==
    [][IsPrefix(events, events') /\ InFileOrder(events')]_vars

(***************************************************************************)
(* SpecGoal: the monitor without manual goal updates, over a transcript of *)
(* at most MaxUserLines user messages, of texts that pass the filter of    *)
(* extractUserText and texts that do not, and a burst of tool calls that   *)
(* brings the counter to its threshold; the goal command of the CLI        *)
(* (cli.mjs, src/src/utils.mjs:218-235) writes the goal store.             *)
(***************************************************************************)
MaxUserLines == 2

\* The goal the goal command writes.
GoalC == "new goal text"

UserTexts == {TextError, TextShort, TextLong, GoalB}

InitGoal ==
    /\ file = <<>>
    /\ env = Env(MaxUserLines + ASSESS_EVERY_N_CALLS, 0, MaxUserLines + ASSESS_EVERY_N_CALLS,
                 0, {ASSESS_EVERY_N_CALLS})
    /\ fsys = NoDisk
    /\ TailOff
    /\ MonitorOff
    /\ FunOff

\* Number of user records among the lines of the transcript.
UserLines(f) == Cardinality({i \in 1..Len(f) : f[i].part = 1 /\ f[i].rec.type = "user"})

\* The external writer appends a user message.
WriteUserLine ==
    /\ LinesBegun(file) < env.lines
    /\ UserLines(file) < MaxUserLines
    /\ \E t \in UserTexts :
          file' = file \o LineBytes(Record(LinesBegun(file) + 1, "user", <<TextBlock(t)>>))
    /\ UNCHANGED <<fsys, env, tailVars, monVars, funVars>>

\* utils.mjs:218-235: session-monitor goal "new goal text", run in another
\* process, writes the goal store (233).
cmdGoal ==
    /\ fsys.goal # GoalC
    /\ fsys' = [fsys EXCEPT !.goal = GoalC]
    /\ hist' = [hist EXCEPT !.cli = (mpc = "running" /\ ~stopped)]
    /\ UNCHANGED <<file, env, tailVars, mpc, events, goal, assessment, toolCallsSinceAssess,
                   stopped, inflight, started, gpc, screen, funVars>>

NextGoal ==
    \/ WriteUserLine
    \/ WriteLine
    \/ cmdGoal
    \/ StartMonitor
    \/ LoadExisting
    \/ StartTailing
    \/ MonitorPollStopped
    \/ MonitorPollIdle
    \/ MonitorPollStat
    \/ MonitorPollRead
    \/ AssessSettle
    \/ DisplayTick
    \/ Stop

SpecGoal == InitGoal /\ [][NextGoal]_vars

\* The user messages of a log that pass the filter of extractUserText.
Qualifying(evs) ==
    SelectSeq(evs, LAMBDA e : e.type = "user_message" /\ extractUserText(e) # Nil)

\* The goals auto-capture can produce from the texts of the model.
CapturedTexts == {extractUserText(UserMessage(t, 0)) : t \in UserTexts} \ {Nil}

\* The goal is the one the first qualifying user message of the log gives,
\* if it is not one the monitor was started with, and no message that
\* fails the filter is the goal.
FirstQualifyingIsGoal ==
    mpc \in {"initAssess", "startTail", "running"} =>
        /\ goal = Nil => Qualifying(events) = <<>>
        /\ goal \in CapturedTexts
              => /\ Qualifying(events) # <<>>
                 /\ goal = extractUserText(Qualifying(events)[1])
        /\ goal \notin {TextError, TextShort, TextLong}

\* C23: when no goal is set, the first user message of the log that passes
\* the filter, loaded at the start or delivered by the tail, becomes the
\* goal, cut to 500 characters; a message that fails the filter is never
\* the goal; and a goal that is set is not replaced by auto-capture.
C23_FirstUserMessageIsGoal ==
    [][FirstQualifyingIsGoal' /\ (goal # Nil => goal' = goal)]_vars

\* C24: after the goal command has written a goal while the monitor is
\* running, every call the monitor makes to the Assessor is made with that
\* goal.
C24_GoalCommandUpdatesMonitor ==
    [][hist.cli => \A c \in inflight' \ inflight : c.goal = GoalC]_vars

(***************************************************************************)
(* SpecHook: the monitor and the UserPromptSubmit hook (hooks/on-prompt.sh, *)
(* src/unnamed/part_002). The hook runs when the user submits a message,   *)
(* before the message is appended to the transcript; arg holds the message *)
(* that was submitted and is not yet in the transcript. The goal store     *)
(* holds the text without the newline echo adds, which readGoal trims.     *)
(***************************************************************************)
InitHook ==
    /\ file = <<>>
    /\ env = Env(MaxUserLines, 0, MaxUserLines, 0, {1})
    /\ fsys = NoDisk
    /\ TailOff
    /\ MonitorOff
    /\ FunOff

\* part_002:8-24: the hook saves the first 500 characters of the prompt if
\* goal.txt is not there.
onPrompt ==
    /\ arg = Nil
    /\ UserLines(file) < MaxUserLines
    /\ \E prompt \in UserTexts :
          /\ arg' = prompt
          /\ fsys' = IF fsys.goal = Nil THEN [fsys EXCEPT !.goal = Slice500(prompt)]
                                        ELSE fsys
    /\ UNCHANGED <<file, env, tailVars, monVars, ret, fpc>>

\* The agent appends the submitted message to the transcript.
WritePrompt ==
    /\ arg # Nil
    /\ file' = file \o LineBytes(Record(LinesBegun(file) + 1, "user", <<TextBlock(arg)>>))
    /\ arg' = Nil
    /\ UNCHANGED <<fsys, env, tailVars, monVars, ret, fpc>>

NextHook ==
    \/ onPrompt
    \/ WritePrompt
    \/ StartMonitor
    \/ LoadExisting
    \/ StartTailing
    \/ MonitorPollStopped
    \/ MonitorPollIdle
    \/ MonitorPollStat
    \/ MonitorPollRead
    \/ AssessSettle
    \/ DisplayTick
    \/ Stop

SpecHook == InitHook /\ [][NextHook]_vars

\* C37: the stored goal of a session is saved once: when goal.txt exists,
\* no step of the hook and no step of a running monitor changes what it
\* holds, under any interleaving of hook runs, the start of the monitor and
\* the user messages the tail delivers.
C37_GoalSavedOnce ==
    [][fsys.goal # Nil => fsys'.goal = fsys.goal]_vars

(***************************************************************************)
(* SpecDrop: the monitor over a transcript in which any line may be text   *)
(* that is not JSON, or a JSON record of a type parseLine does not know.   *)
(***************************************************************************)
MaxDropLines == 3

InitDrop ==
    /\ file = <<>>
    /\ env = Env(MaxDropLines, 0, MaxDropLines, 0, {1})
    /\ fsys = NoDisk
    /\ TailOff
    /\ MonitorOff
    /\ FunOff

\* The lines the agent or anything else may append as line n: a tool call,
\* a user message, a record of type "system", text that is not JSON.
DropRecords(n) ==
    {Record(n, "assistant", <<BashCall(n)>>), Record(n, "user", <<TextBlock(GoalB)>>),
     Record(n, "system", <<>>), Garbage(n)}

WriteAnyLine ==
    /\ LinesBegun(file) < env.lines
    /\ \E r \in DropRecords(LinesBegun(file) + 1) : file' = file \o LineBytes(r)
    /\ UNCHANGED <<fsys, env, tailVars, monVars, funVars>>

NextDrop ==
    \/ WriteAnyLine
    \/ StartMonitor
    \/ LoadExisting
    \/ StartTailing
    \/ MonitorPollStopped
    \/ MonitorPollIdle
    \/ MonitorPollStat
    \/ MonitorPollRead
    \/ AssessSettle
    \/ DisplayTick
    \/ Stop

SpecDrop == InitDrop /\ [][NextDrop]_vars

\* The record of line n of a file of whole lines.
LineRecord(f, n) == f[(n - 1) * (BodyLen + 1) + 1].rec

Dropped(r) == r.type \notin {"user", "assistant"}

\* The numbers of the lines of the batch a read from the cursor returns,
\* and those of them that are not dropped, in file order.
BatchLines == (lastByteOffset \div (BodyLen + 1) + 1)..(Len(file) \div (BodyLen + 1))

GoodLines ==
    SelectSeq([n \in 1..(Len(file) \div (BodyLen + 1)) |-> n],
              LAMBDA n : n \in BatchLines /\ ~Dropped(LineRecord(file, n)))

Timestamps(evs) == [k \in 1..Len(evs) |-> evs[k].timestamp]

\* A poll hands to the handler a batch that holds a dropped line.
DropStep ==
    /\ tpc = "reading" /\ tpc' # "reading"
    /\ \E n \in BatchLines : Dropped(LineRecord(file, n))

\* The dropped lines of a batch leave no trace: the event log grows by the
\* events of the other lines of the batch, in file order, and a batch of
\* dropped lines only leaves the event log, the goal and the counter as
\* they were.
DroppedLinesLeaveNoTrace ==
    [][DropStep =>
          /\ Timestamps(events') = Timestamps(events) \o GoodLines
          /\ GoodLines = <<>> => UNCHANGED <<events, goal, toolCallsSinceAssess, inflight>>]_vars

\* C32: a line that is not JSON, or a JSON record of unrecognised shape, is
\* dropped without raising: the other lines of its batch are delivered in
\* file order, the cursor advances past the batch, and the event log, the
\* goal and the counter are unchanged by the dropped line.
C32_DroppedWithoutRaising ==
    [][DropStep =>
          /\ Timestamps(events') = Timestamps(events) \o GoodLines
          /\ lastByteOffset' = Len(file)
          /\ GoodLines = <<>> => UNCHANGED <<events, goal, toolCallsSinceAssess, inflight>>]_vars

(***************************************************************************)
(* SpecCount: the monitor over a longer transcript of tool calls, written   *)
(* in bursts of Burst lines, so that the counter reaches its threshold     *)
(* more than once; startMonitor is called on the empty transcript or after *)
(* the first burst.                                                        *)
(***************************************************************************)
MaxCountLines == 21

Burst == 7

InitCount ==
    /\ file = <<>>
    /\ env = Env(MaxCountLines, 0, Burst, 1, {Burst})
    /\ fsys = NoDisk
    /\ TailOff
    /\ MonitorOff
    /\ FunOff

SpecCount == InitCount /\ [][Next]_vars

\* C2: at most one call to the Assessor is in flight: no assessment is
\* started while one that was started has neither completed nor failed.
C2_OneCallInFlight == Cardinality(inflight) <= 1

\* C6: on the counter path a trigger comes exactly when the tool calls
\* handled since the previous trigger reach 10, never earlier and never
\* later, and the counter is then zero: unless a goal update has forced it,
\* the counter is the number of tool calls since the previous trigger.
C6_CounterTrigger ==
    /\ ~hist.early
    /\ ~hist.missed
    /\ ~hist.forced => /\ toolCallsSinceAssess = hist.sinceTrigger
                       /\ toolCallsSinceAssess < ASSESS_EVERY_N_CALLS

\* The counter has reached the threshold twice without a goal update, in
\* the middle of a burst, and has counted the rest of the burst from zero.
C6_Witness ==
    /\ hist.auto = 2
    /\ hist.goalUpdates = 0
    /\ Len(events) > 2 * ASSESS_EVERY_N_CALLS
    /\ toolCallsSinceAssess = hist.sinceTrigger
    /\ toolCallsSinceAssess \in 1..(ASSESS_EVERY_N_CALLS - 1)

\* C7: while no goal is set, no call to the Assessor has been started, and
\* the stored assessment is the one of the start: no trigger has replaced
\* it, by the Assessor or by the heuristic.
C7_NoGoalNoAssessment ==
    goal = Nil => /\ started = 0
                  /\ inflight = {}
                  /\ assessment = NoAssessment

\* Without a goal, the trigger of the start and a trigger of the counter
\* have both happened and were skipped.
C7_Witness ==
    /\ goal = Nil
    /\ hist.initial
    /\ hist.auto > 0
    /\ hist.skipped
    /\ assessment = NoAssessment

\* C34: the counter is within 0..10 in every reachable state, and it is 10
\* only between a manual goal update and the next tool call handled; a step
\* in which the counter reaches the threshold while no goal is set leaves
\* the counter below the threshold, counting from zero again, and starts no
\* call to the Assessor: the tool calls counted are consumed.
C34_CounterRange ==
    /\ [](/\ toolCallsSinceAssess \in 0..ASSESS_EVERY_N_CALLS
          /\ toolCallsSinceAssess = ASSESS_EVERY_N_CALLS => hist.forced)
    /\ [][(goal' = Nil /\ hist'.auto > hist.auto) =>
              /\ toolCallsSinceAssess' = hist'.sinceTrigger
              /\ toolCallsSinceAssess' < ASSESS_EVERY_N_CALLS
              /\ hist'.skipped
              /\ started' = started /\ inflight' = inflight
              /\ assessment' = assessment]_vars

\* The threshold was reached without a goal and nothing was assessed; a
\* goal was then given by hand and the counter stands at the threshold.
C34_Witness ==
    /\ hist.auto > 0 /\ hist.skipped /\ started = 0
    /\ hist.forced /\ toolCallsSinceAssess = ASSESS_EVERY_N_CALLS

\* Number of events of the log made from line n of the transcript.
EventsOfLine(n) == Cardinality({k \in 1..Len(events) : events[k].timestamp = n})

\* C36: at the start every complete line is processed by exactly one of the
\* load of the history and the tail: a line that was in the file when the
\* cursor of the tail was set to the end of the file, and that parses to an
\* event, has exactly one event in the log, whether it was written before
\* readAll or between readAll and the start of the tail.
C36_StartupHandover ==
    \A n \in 1..MaxLines :
        (/\ mpc = "running"
         /\ n * (BodyLen + 1) <= startOffset
         /\ parseLine(LineRecord(file, n)) # NoEvent)
            => EventsOfLine(n) = 1

\* The calls to the Assessor that were started and have completed.
CompletedCalls == (1..started) \ {c.call : c \in inflight}

\* C33: the stored assessment comes from the most recently started call
\* that has completed: no completed call was started after the call whose
\* result is stored, whatever the order in which the calls complete.
C33_LatestStartedWins ==
    CompletedCalls # {} => \A n \in CompletedCalls : n <= assessment.call

\* The first event of the log that is the tool call with id i, 0 if none.
FirstCall(evs, i) ==
    LET calls == {k \in 1..Len(evs) : evs[k].type = "tool_call" /\ evs[k].id = i}
    IN  IF calls = {} THEN 0 ELSE CHOOSE k \in calls : \A j \in calls : k <= j

\* C3: once the tail has handed a tool-result record to the handler, the
\* tool call of the event log with the id of the result has its failed
\* flag equal to the is_error flag of the result.
C3_BackFilled ==
    \A j \in 1..Len(delivered) :
        LET b == FirstBlock(delivered[j].content, "tool_result")
        IN  (delivered[j].type = "user" /\ b # 0
             /\ FirstCall(events, delivered[j].content[b].tool_use_id) # 0)
                => events[FirstCall(events, delivered[j].content[b].tool_use_id)].failed
                      = delivered[j].content[b].is_error

(***************************************************************************)
(* SpecParse: parseLine applied to every raw record of at most MaxBlocks   *)
(* content blocks.                                                         *)
(***************************************************************************)
MaxBlocks == 2

Blocks ==
    {TextBlock("ok"), TextBlock(GoalA),
     ToolUseBlock(1, "Bash", [command |-> "npm test", file_path |-> ""]),
     ToolUseBlock(2, "Edit", [command |-> "", file_path |-> "README.md"]),
     ToolResultBlock(1, TRUE), ToolResultBlock(2, FALSE)}

SeqsUpTo(S, n) == UNION {[1..k -> S] : k \in 0..n}

RawRecords ==
    {Record(1, ty, c) : ty \in {"user", "assistant", "system"}, c \in SeqsUpTo(Blocks, MaxBlocks)}

InitParse ==
    /\ file = <<>>
    /\ env = Env(0, 0, 0, 0, {1})
    /\ fsys = NoDisk
    /\ TailOff
    /\ MonitorOff
    /\ arg \in RawRecords
    /\ ret = NoEvent
    /\ fpc = "in"

ApplyParseLine ==
    /\ fpc = "in"
    /\ ret' = parseLine(arg)
    /\ fpc' = "out"
    /\ UNCHANGED <<file, fsys, env, tailVars, monVars, arg>>

NextParse == ApplyParseLine

SpecParse == InitParse /\ [][NextParse]_vars

HasBlock(raw, ty) == FirstBlock(raw.content, ty) # 0

\* The three shapes the classification names.
Classified(raw) ==
    \/ raw.type = "user" /\ HasBlock(raw, "text")
    \/ raw.type = "assistant" /\ HasBlock(raw, "tool_use")
    \/ raw.type = "user" /\ HasBlock(raw, "tool_result")

\* C5: a user record with a tool_result block and no text block parses to a
\* ToolResult carrying the block's tool_use_id and is_error, and a record of
\* none of the three classified shapes parses to no event.
C5_ToolResultParsed ==
    fpc = "out" =>
        /\ (arg.type = "user" /\ HasBlock(arg, "tool_result") /\ ~HasBlock(arg, "text"))
              => LET b == arg.content[FirstBlock(arg.content, "tool_result")]
                 IN  ret = ToolResult(b.tool_use_id, b.is_error, arg.timestamp)
        /\ ~Classified(arg) => ret = NoEvent

\* C26: a record yields at most one event, the first match winning: a user
\* record with a text block yields the UserMessage of its first text block,
\* whatever else it holds, and an assistant record with tool_use blocks
\* yields one ToolCall with the id, name and input of the first of them and
\* failed = false.
C26_FirstMatchWins ==
    fpc = "out" =>
        /\ (arg.type = "user" /\ HasBlock(arg, "text"))
              => ret = UserMessage(arg.content[FirstBlock(arg.content, "text")].text,
                                   arg.timestamp)
        /\ (arg.type = "assistant" /\ HasBlock(arg, "tool_use"))
              => LET b == arg.content[FirstBlock(arg.content, "tool_use")]
                 IN  ret = ToolCall(b.id, b.name, b.input, FALSE, arg.timestamp)
        /\ ret.type \in {"null", "user_message", "tool_call", "tool_result"}

\* An assistant record with two different tool_use blocks has been parsed
\* to the call of the first.
C26_Witness ==
    /\ fpc = "out"
    /\ arg.type = "assistant"
    /\ Len(arg.content) >= 2
    /\ arg.content[1].type = "tool_use" /\ arg.content[2].type = "tool_use"
    /\ arg.content[1].id # arg.content[2].id
    /\ ret.type = "tool_call" /\ ret.id = arg.content[1].id

(***************************************************************************)
(* SpecReconcile: reconcileFailures applied to every list of at most       *)
(* MaxEvents events in which no two tool calls share an id.                *)
(***************************************************************************)
MaxEvents == 4

CallIds == {1, 2}

EventPool ==
    {UserMessage(GoalA, 1)}
    \cup {ToolCall(i, "Bash", [command |-> "npm test", file_path |-> ""], f, 1) :
              i \in CallIds, f \in BOOLEAN}
    \cup {ToolResult(i, e, 1) : i \in CallIds, e \in BOOLEAN}

UniqueCallIds(evs) ==
    \A i, j \in 1..Len(evs) :
        (evs[i].type = "tool_call" /\ evs[j].type = "tool_call" /\ evs[i].id = evs[j].id)
            => i = j

EventLists == {evs \in SeqsUpTo(EventPool, MaxEvents) : UniqueCallIds(evs)}

InitReconcile ==
    /\ file = <<>>
    /\ env = Env(0, 0, 0, 0, {1})
    /\ fsys = NoDisk
    /\ TailOff
    /\ MonitorOff
    /\ arg \in EventLists
    /\ ret = <<>>
    /\ fpc = "in"

ApplyReconcile ==
    /\ fpc = "in"
    /\ ret' = reconcileFailures(arg)
    /\ fpc' = "out"
    /\ UNCHANGED <<file, fsys, env, tailVars, monVars, arg>>

NextReconcile == ApplyReconcile

SpecReconcile == InitReconcile /\ [][NextReconcile]_vars

\* The event at j is the only ToolResult of the list with its toolUseId.
OnlyResult(evs, j) ==
    /\ evs[j].type = "tool_result"
    /\ \A k \in 1..Len(evs) :
          (evs[k].type = "tool_result" /\ evs[k].toolUseId = evs[j].toolUseId) => k = j

\* C4: after reconcileFailures, a ToolCall whose id is the toolUseId of the
\* ToolResult of the list for that id has failed equal to the result's
\* isError, wherever the call and the result are in the list.
C4_Reconciled ==
    fpc = "out" =>
        \A k, j \in 1..Len(arg) :
            (arg[k].type = "tool_call" /\ OnlyResult(arg, j) /\ arg[j].toolUseId = arg[k].id)
                => ret[k].failed = arg[j].isError

\* A result with the error flag set is after its call in the list, a result
\* without it is before a call that was marked failed, and both are applied.
C4_Witness ==
    /\ fpc = "out"
    /\ \E k, j \in 1..Len(arg) :
          /\ k < j
          /\ arg[k].type = "tool_call" /\ ~arg[k].failed
          /\ OnlyResult(arg, j) /\ arg[j].toolUseId = arg[k].id /\ arg[j].isError
          /\ ret[k].failed
    /\ \E k, j \in 1..Len(arg) :
          /\ j < k
          /\ arg[k].type = "tool_call" /\ arg[k].failed
          /\ OnlyResult(arg, j) /\ arg[j].toolUseId = arg[k].id /\ ~arg[j].isError
          /\ ~ret[k].failed

\* The list holds no ToolResult for the call id i.
NoResult(evs, i) ==
    \A j \in 1..Len(evs) : ~(evs[j].type = "tool_result" /\ evs[j].toolUseId = i)

\* C31: reconcileFailures writes nothing but the failed flag of tool calls
\* that have a ToolResult in the log: a call whose id has no result keeps
\* its flag, false as parseLine created it, and every other event and every
\* other field is left as it was.
C31_FailedFrame ==
    fpc = "out" =>
        /\ Len(ret) = Len(arg)
        /\ \A k \in 1..Len(arg) :
              /\ ret[k] = [arg[k] EXCEPT !.failed = ret[k].failed]
              /\ arg[k].type # "tool_call" => ret[k] = arg[k]
              /\ (arg[k].type = "tool_call" /\ NoResult(arg, arg[k].id)) => ret[k] = arg[k]

\* A call with an error result has been marked failed, and a call with no
\* result, in the same list, has kept failed = false.
C31_Witness ==
    /\ fpc = "out"
    /\ \E k, m \in 1..Len(arg) :
          /\ arg[k].type = "tool_call" /\ ~arg[k].failed /\ ret[k].failed
          /\ arg[m].type = "tool_call" /\ NoResult(arg, arg[m].id)
          /\ ~arg[m].failed /\ ~ret[m].failed

(***************************************************************************)
(* SpecAssess: assess applied to every combination of the seven signal     *)
(* flags and every response of the Assessor.                               *)
(***************************************************************************)
SignalNames ==
    {"loop", "stuckOnFile", "errorStreak", "paralysis", "scopeCreep", "goodMomentum",
     "noProgress"}

\* The signal set in which exactly the signals of D are detected.
SignalSet(D) ==
    [loop         |-> IF "loop" \in D
                      THEN [detected |-> TRUE, command |-> "npm test", count |-> 3]
                      ELSE [detected |-> FALSE, command |-> "", count |-> 0],
     stuckOnFile  |-> IF "stuckOnFile" \in D
                      THEN [detected |-> TRUE, file |-> "README.md", count |-> 5]
                      ELSE [detected |-> FALSE, file |-> "", count |-> 0],
     errorStreak  |-> [detected |-> "errorStreak" \in D,
                       streak |-> IF "errorStreak" \in D THEN 3 ELSE 0],
     paralysis    |-> [detected |-> "paralysis" \in D,
                       count |-> IF "paralysis" \in D THEN 8 ELSE 0],
     scopeCreep   |-> [detected |-> "scopeCreep" \in D,
                       files |-> IF "scopeCreep" \in D THEN <<"readme.md">> ELSE <<>>],
     goodMomentum |-> [detected |-> "goodMomentum" \in D,
                       count |-> IF "goodMomentum" \in D THEN 2 ELSE 0],
     noProgress   |-> [detected |-> "noProgress" \in D]]

Scores == {-5, 0, 1, 100, 101}

Statuses == {"ON TRACK", "on track", "Agent is stuck", "fine"}

Responses ==
    {Thrown(c) : c \in {"network", "auth", "timeout"}}
    \cup {NotJson, JsonNull}
    \cup {Response("text", "object", TRUE, sc, TRUE, st, TRUE, r, sg) :
              sc \in Scores, st \in Statuses, r \in {"fine", "text of 200 chars"},
              sg \in {Nil, "rerun the tests"}}
    \cup {Response("text", "object", FALSE, 0, TRUE, "STUCK", TRUE, "fine", Nil),
          Response("text", "object", TRUE, 55, FALSE, "", TRUE, "fine", Nil),
          Response("text", "object", TRUE, 55, TRUE, "STUCK", FALSE, "", Nil),
          Response("text", "object", FALSE, 0, FALSE, "", FALSE, "", Nil)}

InitAssess ==
    /\ file = <<>>
    /\ env = Env(0, 0, 0, 0, {1})
    /\ fsys = NoDisk
    /\ TailOff
    /\ MonitorOff
    /\ arg \in [signals : {SignalSet(D) : D \in SUBSET SignalNames}, response : Responses]
    /\ ret = NoAssessment
    /\ fpc = "in"

ApplyAssess ==
    /\ fpc = "in"
    /\ ret' = assess(arg.signals, signalSummary(arg.signals), arg.response)
    /\ fpc' = "out"
    /\ UNCHANGED <<file, fsys, env, tailVars, monVars, arg>>

NextAssess == ApplyAssess

SpecAssess == InitAssess /\ [][NextAssess]_vars

\* The Assessor call failed: it threw or timed out, or returned no JSON.
CallFailed(response) == response.kind # "text" \/ response.json = "none"

\* The response is a JSON object with the fields score, status and reason.
WellFormed(response) ==
    /\ response.kind = "text" /\ response.json = "object"
    /\ response.hasScore /\ response.hasStatus /\ response.hasReason

\* C8: when the Assessor call fails, assess returns a heuristic assessment:
\* its score is heuristicScore(signals), its status follows from the score
\* by the thresholds 80, 60 and 40, its reason holds the signal summary, and
\* it has a suggestion exactly when the score is below 60.
C8_Fallback ==
    (fpc = "out" /\ CallFailed(arg.response)) =>
        /\ ret.source = "heuristic"
        /\ ret.score = heuristicScore(arg.signals)
        /\ ret.status = (IF ret.score >= 80 THEN "ON TRACK"
                         ELSE IF ret.score >= 60 THEN "HEADS UP"
                         ELSE IF ret.score >= 40 THEN "DRIFTING" ELSE "STUCK")
        /\ ret.reason.summary = signalSummary(arg.signals)
        /\ (ret.suggestion # Nil) <=> (ret.score < 60)

\* The call timed out with the loop and error-streak signals detected: the
\* fallback has score 15, status STUCK and a suggestion.
C8_Witness ==
    /\ fpc = "out"
    /\ arg.response = Thrown("timeout")
    /\ arg.signals = SignalSet({"loop", "errorStreak"})
    /\ ret.source = "heuristic" /\ ret.score = 15 /\ ret.status = "STUCK"
    /\ ret.suggestion # Nil

\* C9: a response that is a JSON object without one of score, status and
\* reason is treated as a failure: the assessment is the heuristic fallback.
C9_MissingFieldIsFailure ==
    (/\ fpc = "out"
     /\ arg.response.kind = "text" /\ arg.response.json = "object"
     /\ ~WellFormed(arg.response))
        => ret.source = "heuristic"

\* C10: for a well-formed response with integer score s, the assessment is
\* externally sourced and its score is min(100, max(0, s)).
C10_ScoreClamped ==
    (fpc = "out" /\ WellFormed(arg.response)) =>
        /\ ret.source = "api"
        /\ ret.score = Min(100, Max(0, arg.response.score))

\* C11: every assessment has the status of its score under the thresholds:
\* 80 and above ON TRACK, 60..79 HEADS UP, 40..59 DRIFTING, below 40 STUCK.
C11_StatusOfScore ==
    fpc = "out" =>
        ret.status = (IF ret.score >= 80 THEN "ON TRACK"
                      ELSE IF ret.score >= 60 THEN "HEADS UP"
                      ELSE IF ret.score >= 40 THEN "DRIFTING" ELSE "STUCK")

(***************************************************************************)
(* SpecScore: heuristicScore applied to every combination of the seven     *)
(* signal flags, with the evidence of the signals varied.                  *)
(***************************************************************************)
MaxEvidence == 1

\* The signal set of D with n added to the counts of its evidence.
SignalSetWith(D, n) ==
    [SignalSet(D) EXCEPT !.loop.count = @ + n,
                         !.stuckOnFile.count = @ + n,
                         !.errorStreak.streak = @ + n,
                         !.paralysis.count = @ + n,
                         !.goodMomentum.count = @ + n]

InitScore ==
    /\ file = <<>>
    /\ env = Env(0, 0, 0, 0, {1})
    /\ fsys = NoDisk
    /\ TailOff
    /\ MonitorOff
    /\ arg \in {SignalSetWith(D, n) : D \in SUBSET SignalNames, n \in 0..MaxEvidence}
    /\ ret = -1
    /\ fpc = "in"

ApplyScore ==
    /\ fpc = "in"
    /\ ret' = heuristicScore(arg)
    /\ fpc' = "out"
    /\ UNCHANGED <<file, fsys, env, tailVars, monVars, arg>>

NextScore == ApplyScore

SpecScore == InitScore /\ [][NextScore]_vars

\* 1 when the flag is set, 0 otherwise.
Flag(b) == IF b THEN 1 ELSE 0

\* C12: heuristicScore is min(100, max(0, 70 - 25 loop - 20 stuckOnFile
\* - 30 errorStreak - 20 paralysis - 15 scopeCreep - 20 noProgress
\* + 20 goodMomentum)) of the seven flags, whatever the evidence, and so is
\* within 0..100.
C12_ScoreOfFlags ==
    fpc = "out" =>
        /\ ret = Min(100, Max(0, 70 - 25 * Flag(arg.loop.detected)
                                    - 20 * Flag(arg.stuckOnFile.detected)
                                    - 30 * Flag(arg.errorStreak.detected)
                                    - 20 * Flag(arg.paralysis.detected)
                                    - 15 * Flag(arg.scopeCreep.detected)
                                    - 20 * Flag(arg.noProgress.detected)
                                    + 20 * Flag(arg.goodMomentum.detected)))
        /\ ret \in 0..100

\* The six negative flags are set and goodMomentum is not: the sum is -60
\* and the score is 0.
C12_Witness ==
    /\ fpc = "out"
    /\ \A n \in SignalNames \ {"goodMomentum"} : arg[n].detected
    /\ ~arg.goodMomentum.detected
    /\ ret = 0

(***************************************************************************)
(* SpecSignals: detectSignals applied to event lists made of a core of at  *)
(* most MaxCore tool calls followed by at most MaxPad events of one kind   *)
(* (Read calls or user messages), so that the core lies inside, across or  *)
(* outside the windows of the last 15 tool calls and the last 20 events.   *)
(***************************************************************************)
MaxCore == 4

MaxPad == 21

\* The tool calls of a core: three Bash calls and two Edit or Write calls,
\* some of them failed.
SignalPool ==
    {ToolCall(0, "Bash", [command |-> "npm test", file_path |-> ""], FALSE, 0),
     ToolCall(0, "Bash", [command |-> "  npm test ", file_path |-> ""], TRUE, 0),
     ToolCall(0, "Bash", [command |-> "ls", file_path |-> ""], TRUE, 0),
     ToolCall(0, "Edit", [command |-> "", file_path |-> "README.md"], FALSE, 0),
     ToolCall(0, "Write", [command |-> "", file_path |-> "docs/notes.md"], TRUE, 0)}

PadKinds == {"read", "user"}

\* n events of kind k.
Pad(k, n) ==
    [i \in 1..n |->
        IF k = "read"
        THEN ToolCall(0, "Read", [command |-> "", file_path |-> "src/Auth/Refresh.js"], FALSE, 0)
        ELSE UserMessage("ok", 0)]

\* The events with their place in the log as timestamp, and as id for a call.
Numbered(evs) ==
    [i \in 1..Len(evs) |->
        [evs[i] EXCEPT !.timestamp = i, !.id = IF evs[i].type = "tool_call" THEN i ELSE 0]]

InitSignals ==
    /\ file = <<>>
    /\ env = Env(0, 0, 0, 0, {1})
    /\ fsys = NoDisk
    /\ TailOff
    /\ MonitorOff
    /\ arg \in {[events |-> Numbered(core \o Pad(k, n)), goal |-> GoalA] :
                   core \in SeqsUpTo(SignalPool, MaxCore), k \in PadKinds, n \in 0..MaxPad}
    /\ ret = SignalSet({})
    /\ fpc = "in"

ApplySignals ==
    /\ fpc = "in"
    /\ ret' = detectSignals(arg.events, arg.goal)
    /\ fpc' = "out"
    /\ UNCHANGED <<file, fsys, env, tailVars, monVars, arg>>

NextSignals == ApplySignals

SpecSignals == InitSignals /\ [][NextSignals]_vars

\* The most recent 15 tool-call events of a log.
RecentCalls(evs) == LastN(SelectSeq(evs, IsToolCall), 15)

\* The places of the Bash calls of w that run the command c.
Running(w, c) ==
    {i \in 1..Len(w) : IsBash(w[i]) /\ NormalizeCommand(w[i].tool.input.command) = c}

\* The frequency of the most frequent command among the Bash calls of w.
TopFrequency(w) ==
    LET cs == {NormalizeCommand(w[i].tool.input.command) : i \in {j \in 1..Len(w) : IsBash(w[j])}}
    IN  IF cs = {} THEN 0
        ELSE CHOOSE n \in 1..Len(w) :
                /\ \E c \in cs : Cardinality(Running(w, c)) = n
                /\ \A c \in cs : Cardinality(Running(w, c)) <= n

C28_NoProgress ==
    fpc = "out" =>
        (ret.noProgress.detected
            <=> /\ Len(arg.events) >= 10
                /\ \A i \in 1..Len(arg.events) :
                      i > Len(arg.events) - 20 => ~IsWrite(arg.events[i]))

\* The log holds an Edit call, but more than 20 events ago.
C28_Witness ==
    /\ fpc = "out"
    /\ ret.noProgress.detected
    /\ Len(arg.events) > 20
    /\ \E i \in 1..Len(arg.events) : IsWrite(arg.events[i])

(***************************************************************************)
(* SpecScope: detectSignals applied to logs of at most MaxCore Edit and    *)
(* Write calls, on files the goal names and files it does not, followed by *)
(* at most MaxPad Read calls.                                              *)
(***************************************************************************)
ScopePool ==
    {ToolCall(0, "Edit", [command |-> "", file_path |-> "README.md"], FALSE, 0),
     ToolCall(0, "Write", [command |-> "", file_path |-> "docs/notes.md"], FALSE, 0),
     ToolCall(0, "Edit", [command |-> "", file_path |-> "lib/util.js"], FALSE, 0),
     ToolCall(0, "Edit", [command |-> "", file_path |-> "src/Auth/Refresh.js"], FALSE, 0),
     ToolCall(0, "Edit", [command |-> "", file_path |-> "test/auth.test.js"], FALSE, 0)}

InitScope ==
    /\ file = <<>>
    /\ env = Env(0, 0, 0, 0, {1})
    /\ fsys = NoDisk
    /\ TailOff
    /\ MonitorOff
    /\ arg \in {[events |-> Numbered(core \o Pad("read", n)), goal |-> GoalA] :
                   core \in SeqsUpTo(ScopePool, MaxCore), n \in 0..MaxPad}
    /\ ret = SignalSet({})
    /\ fpc = "in"

SpecScope == InitScope /\ [][NextSignals]_vars

\* The distinct lower-cased paths of the Edit and Write calls of w that
\* hold no word of the goal and none of test, spec, config.
UnrelatedFiles(w, g) ==
    {ToLowerCase(w[i].tool.input.file_path) :
        i \in {j \in 1..Len(w) : IsWrite(w[j])
                                  /\ Unrelated(ToLowerCase(w[j].tool.input.file_path), g)}}

\* C29: scopeCreep.detected is true exactly when at least 3 distinct files
\* unrelated to the goal were edited or written in the most recent 15 tool
\* calls; repeated edits of one file count once.
C29_ScopeCreepDistinct ==
    fpc = "out" =>
        (ret.scopeCreep.detected
            <=> Cardinality(UnrelatedFiles(RecentCalls(arg.events), arg.goal)) >= 3)

\* Some k calls in a row of w, ending at place i, have all failed.
FailedRunOf(w, k) ==
    \E i \in k..Len(w) : \A j \in (i - k + 1)..i : w[j].failed

\* The length of the longest run of failed calls of w.
LongestFailedRun(w) ==
    CHOOSE k \in 0..Len(w) : FailedRunOf(w, k) /\ \A m \in (k + 1)..Len(w) : ~FailedRunOf(w, m)

\* C30: errorStreak.streak is the length of the longest run of consecutive
\* failed calls among the most recent 15 tool calls, and errorStreak.detected
\* is true exactly when it is at least 3.
C30_ErrorStreak ==
    fpc = "out" =>
        LET longest == LongestFailedRun(RecentCalls(arg.events))
        IN  /\ ret.errorStreak.streak = longest
            /\ ret.errorStreak.detected <=> longest >= 3

\* A run of 4 failed calls of which the window holds 3.
C30_Witness ==
    /\ fpc = "out"
    /\ ret.errorStreak.detected /\ ret.errorStreak.streak = 3
    /\ LongestFailedRun(SelectSeq(arg.events, IsToolCall)) = 4

====
